---- MODULE Spec2Model ----
(***************************************************************************)
(* Model of assignment_2.py (MouseFood): a mouse foraging on a grid by     *)
(* following the scent of food, with per-tick snapshots and rewind.        *)
(*                                                                         *)
(* Real numbers: every scent value of the program is a sum of values       *)
(* round(1/(d+1), 5); the model stores value * 100000 as an integer.       *)
(*                                                                         *)
(* The energy and round constants are scaled down (they are the bounds of  *)
(* the model); the grid keeps its size of 10 x 10, and the random draws of *)
(* randGridX / randGridY are taken from 0 .. MaxRand.                      *)
(***************************************************************************)
EXTENDS Integers, Sequences, FiniteSets, TLC

\* ---------------------------------------------------------------- constants
GAME_GRID_WIDTH == 10
GAME_GRID_HEIGHT == GAME_GRID_WIDTH
NUM_SPACES == GAME_GRID_WIDTH * GAME_GRID_HEIGHT
DEFAULT_TERRAIN_DIFFICULTY == 1
DEATH_PENALTY == TRUE
USE_DIAGONAL_SCENT == FALSE
MAX_NUM_FOOD_ON_GRID == 2

\* scaled down: 20, 20 and 100 in the source
ENERGY_PER_FOOD == 2
FOOD_PER_ROUND == 2
MAX_ENERGY == 3
MAX_SAVED_GAME_STATES == MAX_ENERGY

\* ------------------------------------------------------------------- bounds
\* random coordinates are drawn from 0 .. MaxRand
MaxRand == 2
\* a run holds at most MaxTicks ticks and key presses K_p, K_0
MaxTicks == 6
\* arguments of rewindGameState are drawn from 0 .. MaxRewind
MaxRewind == 4
\* tiles a client may add to the grid by direct addFood(x, y) calls
MaxTiles == 3

\* values of the scent field are integers: value * Scale
Scale == 100000

NORTH == 0
SOUTH == 1
WEST == 2
EAST == 3
Directions == {NORTH, SOUTH, WEST, EAST}

Cells == (0 .. GAME_GRID_WIDTH - 1) \X (0 .. GAME_GRID_HEIGHT - 1)

Min(a, b) == IF a < b THEN a ELSE b
Max(a, b) == IF a < b THEN b ELSE a

\* ------------------------------------------------------------ scent values
\* round(1 / (sqrt(d2) + 1), 5) * Scale for the squared distances d2 that two
\* points with coordinates in 0 .. GAME_GRID_WIDTH can have
ContributionTable ==
  { <<0, 100000>>, <<1, 50000>>, <<2, 41421>>, <<4, 33333>>, <<5, 30902>>,
    <<8, 26120>>, <<9, 25000>>, <<10, 24025>>, <<13, 21713>>, <<16, 20000>>,
    <<17, 19519>>, <<18, 19074>>, <<20, 18274>>, <<25, 16667>>, <<26, 16396>>,
    <<29, 15661>>, <<32, 15022>>, <<34, 14639>>, <<36, 14286>>, <<37, 14119>>,
    <<40, 13653>>, <<41, 13508>>, <<45, 12973>>, <<49, 12500>>, <<50, 12390>>,
    <<52, 12179>>, <<53, 12077>>, <<58, 11607>>, <<61, 11350>>, <<64, 11111>>,
    <<65, 11035>>, <<68, 10815>>, <<72, 10543>>, <<73, 10478>>, <<74, 10414>>,
    <<80, 10056>>, <<81, 10000>>, <<82, 9945>>, <<85, 9785>>, <<89, 9584>>,
    <<90, 9536>>, <<97, 9218>>, <<98, 9175>>, <<100, 9091>>, <<101, 9050>>,
    <<104, 8930>>, <<106, 8853>>, <<109, 8741>>, <<113, 8598>>, <<116, 8496>>,
    <<117, 8463>>, <<125, 8210>>, <<128, 8121>>, <<130, 8063>>, <<136, 7898>>,
    <<145, 7668>>, <<149, 7572>>, <<162, 7284>>, <<164, 7243>>, <<181, 6919>>,
    <<200, 6604>> }

\* dist = distance.euclidean((i,j),(tile.x,tile.y)) + 1; dist = 1/dist;
\* round(dist,5)
Contribution ==
  [d2 \in 0 .. 200 |->
     IF \E p \in ContributionTable : p[1] = d2
       THEN (CHOOSE p \in ContributionTable : p[1] = d2)[2]
       ELSE 0]

RoundedScent(i, j, tx, ty) ==
  Contribution[(i - tx) * (i - tx) + (j - ty) * (j - ty)]

\* one pass of the loop over occupied_spaces in calcSmellMatrix, for one tile,
\* seen from the cell c = [j][i] whose value was v: smell_grid[tile.x][tile.y]
\* is set to 1, then every cell [j][i] is visited once
SmellOfTile(v, c, tile, stacking) ==
  LET j == c[1]
      i == c[2]
      first == IF j = tile.x /\ i = tile.y THEN Scale ELSE v
      r == RoundedScent(i, j, tile.x, tile.y)
  IN IF ~stacking
       THEN IF first < r THEN r ELSE first
       ELSE IF j = tile.x /\ i = tile.y THEN r ELSE first + r

RECURSIVE SmellFold(_, _, _, _, _)
SmellFold(v, c, tiles, k, stacking) ==
  IF k > Len(tiles) THEN v
  ELSE SmellFold(SmellOfTile(v, c, tiles[k], stacking), c, tiles, k + 1, stacking)

\* GameGrid.calcSmellMatrix: the field of the tiles, computed from zeros
calcSmellMatrix(tiles, stacking) ==
  [c \in Cells |-> SmellFold(0, c, tiles, 1, stacking)]

\* The field smell_grid is kept in the state as the call of calcSmellMatrix
\* that produced it (the tiles and the mode): the array is SmellGrid(g).
\* np.zeros(...) is the field of no tiles.
SmellCall(tiles, stacking) ==
  [tiles |-> tiles, stacking |-> IF tiles = <<>> THEN TRUE ELSE stacking]

SmellGrid(g) == calcSmellMatrix(g.smell_grid.tiles, g.smell_grid.stacking)

\* smell_grid[a][b]
SmellAt(g, a, b) ==
  SmellFold(0, <<a, b>>, g.smell_grid.tiles, 1, g.smell_grid.stacking)

\* ------------------------------------------------------------------ Player
ZeroMatrix == << <<0, 0, 0>>, <<0, 0, 0>>, <<0, 0, 0>> >>

\* Player.__init__
Player(x, y) ==
  [x |-> x, y |-> y, food_eaten |-> 0, energy |-> MAX_ENERGY, alive |-> TRUE,
   smell_matrix |-> ZeroMatrix, score |-> 0]

\* useEnergy that lets the player live on at energy -1
useEnergy_LateDeath(p, amnt) ==
  LET e == p.energy - amnt
  IN [p EXCEPT !.energy = e, !.alive = IF e < -1 THEN FALSE ELSE p.alive]

\* Player.useEnergy (die() clears alive)
useEnergy(p, amnt) ==
  LET e == p.energy - amnt
  IN [p EXCEPT !.energy = e, !.alive = IF e < 0 THEN FALSE ELSE p.alive]

\* move without the check of the east edge
move_NoEastEdge(p, direction, difficulty) ==
  IF ~p.alive THEN p
  ELSE LET q == CASE direction = 0 ->
                       IF p.y > 0 THEN [p EXCEPT !.y = p.y - 1] ELSE p
                  [] direction = 1 ->
                       IF p.y < GAME_GRID_HEIGHT - 1
                         THEN [p EXCEPT !.y = p.y + 1] ELSE p
                  [] direction = 2 ->
                       IF p.x > 0 THEN [p EXCEPT !.x = p.x - 1] ELSE p
                  [] direction = 3 -> [p EXCEPT !.x = p.x + 1]
                  [] OTHER -> p
       IN useEnergy(q, difficulty)

\* Player.move
move(p, direction, difficulty) ==
  IF ~p.alive THEN p
  ELSE LET q == CASE direction = 0 ->
                       IF p.y > 0 THEN [p EXCEPT !.y = p.y - 1] ELSE p
                  [] direction = 1 ->
                       IF p.y < GAME_GRID_HEIGHT - 1
                         THEN [p EXCEPT !.y = p.y + 1] ELSE p
                  [] direction = 2 ->
                       IF p.x > 0 THEN [p EXCEPT !.x = p.x - 1] ELSE p
                  [] direction = 3 ->
                       IF p.x < GAME_GRID_WIDTH - 1
                         THEN [p EXCEPT !.x = p.x + 1] ELSE p
                  [] OTHER -> p
       IN useEnergy(q, difficulty)

\* eatFood without the cap at max_energy
eatFood_NoCap(p) ==
  [p EXCEPT !.food_eaten = p.food_eaten + 1,
            !.score = p.score + p.energy,
            !.energy = p.energy + ENERGY_PER_FOOD]

\* Player.eatFood
eatFood(p) ==
  LET e == p.energy + ENERGY_PER_FOOD
  IN [p EXCEPT !.food_eaten = p.food_eaten + 1,
               !.score = p.score + p.energy,
               !.energy = IF e > MAX_ENERGY THEN MAX_ENERGY ELSE e]

\* ---------------------------------------------------------------- GameGrid
\* GridSpace.__init__ followed by setFood
FoodTile(x, y) == [x |-> x, y |-> y, type |-> "Food"]

\* GameGrid.reset (occupied_grid is the set of the cells that hold a 1)
ResetGrid ==
  [smell_grid |-> SmellCall(<<>>, TRUE), occupied_grid |-> {}, occupied_spaces |-> <<>>,
   player |-> Player(0, 0)]

\* GameGrid.checkValidTile
checkValidTile(x, y) ==
  x >= 0 /\ y >= 0 /\ x < GAME_GRID_WIDTH /\ y < GAME_GRID_HEIGHT

\* GameGrid.checkOccupied
checkOccupied(g, x, y) == checkValidTile(x, y) /\ <<x, y>> \in g.occupied_grid

\* GameGrid.getTile: the tiles at (x, y), the first one is the one returned
TilesAt(g, x, y) ==
  { k \in 1 .. Len(g.occupied_spaces) :
      g.occupied_spaces[k].x = x /\ g.occupied_spaces[k].y = y }

\* GameGrid.checkForFood
checkForFood(g, x, y) ==
  /\ checkOccupied(g, x, y)
  /\ TilesAt(g, x, y) # {}
  /\ LET k == CHOOSE m \in TilesAt(g, x, y) :
                 \A n \in TilesAt(g, x, y) : m <= n
     IN g.occupied_spaces[k].type = "Food"

\* GameGrid.isPlayerNext2Food: the directions that lead to food (None is {})
isPlayerNext2Food(g) ==
  LET x == g.player.x
      y == g.player.y
  IN (IF checkForFood(g, x - 1, y) THEN {WEST} ELSE {})
     \cup (IF checkForFood(g, x + 1, y) THEN {EAST} ELSE {})
     \cup (IF checkForFood(g, x, y - 1) THEN {NORTH} ELSE {})
     \cup (IF checkForFood(g, x, y + 1) THEN {SOUTH} ELSE {})

\* GameGrid.calcPlayerSense: padded_grid[y:y+3, x:x+3]
PaddedAt(g, a, b) ==
  IF a >= 1 /\ a <= GAME_GRID_WIDTH /\ b >= 1 /\ b <= GAME_GRID_HEIGHT
    THEN SmellAt(g, a - 1, b - 1) ELSE 0

\* calcPlayerSense that slices padded_grid[x:x+3, y:y+3]
calcPlayerSense_Swapped(g) ==
  LET x == g.player.x
      y == g.player.y
      w == [r \in 1 .. 3 |->
              [c \in 1 .. 3 |-> PaddedAt(g, x + r - 1, y + c - 1)]]
  IN [g EXCEPT !.player.smell_matrix = w]

calcPlayerSense(g) ==
  LET x == g.player.x
      y == g.player.y
      w == [r \in 1 .. 3 |->
              [c \in 1 .. 3 |-> PaddedAt(g, y + r - 1, x + c - 1)]]
  IN [g EXCEPT !.player.smell_matrix = w]

\* the list iteration of removeTile: the loop index moves on after a removal
RECURSIVE RemoveLoop(_, _, _, _, _)
RemoveLoop(spaces, k, x, y, tile_type) ==
  IF k > Len(spaces) THEN [spaces |-> spaces, tile_type |-> tile_type]
  ELSE IF spaces[k].x = x /\ spaces[k].y = y
    THEN RemoveLoop(SubSeq(spaces, 1, k - 1) \o SubSeq(spaces, k + 1, Len(spaces)),
                    k + 1, x, y, spaces[k].type)
    ELSE RemoveLoop(spaces, k + 1, x, y, tile_type)

\* GameGrid.removeTile: the grid afterwards and the type removed ("None")
removeTile(g, x, y) ==
  IF checkOccupied(g, x, y)
    THEN LET r == RemoveLoop(g.occupied_spaces, 1, x, y, "None")
         IN [grid |-> [g EXCEPT !.occupied_grid = g.occupied_grid \ {<<x, y>>},
                                !.occupied_spaces = r.spaces],
             tile_type |-> r.tile_type]
    ELSE [grid |-> g, tile_type |-> "None"]

\* movePlayer that leaves the scent field as it is after a feed
movePlayer_NoRecalc(g, direction, stacking) ==
  LET p == move(g.player, direction, 1)
      r == removeTile([g EXCEPT !.player = p], p.x, p.y)
  IN IF r.tile_type = "Food"
       THEN [r.grid EXCEPT !.player = eatFood(p)]
       ELSE r.grid

\* GameGrid.movePlayer
movePlayer(g, direction, stacking) ==
  LET p == move(g.player, direction, 1)
      r == removeTile([g EXCEPT !.player = p], p.x, p.y)
  IN IF r.tile_type = "Food"
       THEN [r.grid EXCEPT
               !.player = eatFood(p),
               !.smell_grid = SmellCall(r.grid.occupied_spaces, stacking)]
       ELSE r.grid

\* the cells the random draws of randGridSpace are taken from
RandCells == (0 .. MaxRand) \X (0 .. MaxRand)

\* GameGrid.randEmptySpace: the cells it can return. Under half full it draws
\* until it hits a cell whose occupied_grid entry is 0; otherwise it scans
\* the grid for the choice-th such cell (choice in 0 .. empty_left, and the
\* second scan returns the first such cell when choice = empty_left).
randEmptySpace(g) ==
  IF 2 * Len(g.occupied_spaces) < NUM_SPACES
    THEN { c \in RandCells : c \notin g.occupied_grid }
    ELSE { c \in Cells : c \notin g.occupied_grid }

\* GameGrid.genTile: the tiles it can return (None is the empty set)
genTile(g, x, y) ==
  IF NUM_SPACES <= Len(g.occupied_spaces) THEN {}
  ELSE IF x < 0 \/ x > GAME_GRID_WIDTH \/ y < 0 \/ y > GAME_GRID_HEIGHT
    THEN { FoodTile(c[1], c[2]) : c \in randEmptySpace(g) }
    ELSE { FoodTile(x, y) }

\* GameGrid.addTile: occupied_grid[tile.x][tile.y] = 1 raises IndexError when
\* the index is past the end of the array, after the append
IndexError(tile) == tile.x >= GAME_GRID_WIDTH \/ tile.y >= GAME_GRID_HEIGHT

addTile(g, tile) ==
  IF IndexError(tile)
    THEN [g EXCEPT !.occupied_spaces = Append(g.occupied_spaces, tile)]
    ELSE [g EXCEPT !.occupied_spaces = Append(g.occupied_spaces, tile),
                   !.occupied_grid = g.occupied_grid \cup {<<tile.x, tile.y>>}]

\* a grid in which addTile has raised
Raised(g) ==
  \E k \in 1 .. Len(g.occupied_spaces) : IndexError(g.occupied_spaces[k])

\* GameGrid.addFood: the grids it can leave
addFood(g, x, y, stacking) ==
  IF genTile(g, x, y) = {}
    THEN { [g EXCEPT !.smell_grid = SmellCall(g.occupied_spaces, stacking)] }
    ELSE { IF IndexError(tile) THEN addTile(g, tile)
           ELSE LET h == addTile(g, tile)
                IN [h EXCEPT !.smell_grid =
                               SmellCall(h.occupied_spaces, stacking)]
           : tile \in genTile(g, x, y) }

\* ------------------------------------------------------------- smart_mouse
\* simple_mouse: random.choice(range(0,4))
simple_mouse == Directions

\* np.any(scent_matrix)
AnyScent(scent_matrix) ==
  \E r \in 1 .. 3 : \E c \in 1 .. 3 : scent_matrix[r][c] # 0

\* movement_array, as a function of the direction
movement_array(scent_matrix) ==
  IF USE_DIAGONAL_SCENT
    THEN [d \in Directions |->
            CASE d = NORTH -> scent_matrix[1][1] + scent_matrix[1][2] + scent_matrix[1][3]
              [] d = SOUTH -> scent_matrix[3][1] + scent_matrix[3][2] + scent_matrix[3][3]
              [] d = WEST -> scent_matrix[1][1] + scent_matrix[2][1] + scent_matrix[3][1]
              [] d = EAST -> scent_matrix[1][3] + scent_matrix[2][3] + scent_matrix[3][3]]
    ELSE [d \in Directions |->
            CASE d = NORTH -> scent_matrix[1][2]
              [] d = SOUTH -> scent_matrix[3][2]
              [] d = WEST -> scent_matrix[2][1]
              [] d = EAST -> scent_matrix[2][3]]

\* smart_mouse without the check for nearby food
smart_mouse_NoNearby(scent_matrix, g) ==
  IF ~AnyScent(scent_matrix) THEN simple_mouse
  ELSE LET m == movement_array(scent_matrix)
       IN { d \in Directions : \A e \in Directions : m[e] <= m[d] }

\* smart_mouse that returns the first of the best directions:
\* movement_array.index(max(movement_array))
smart_mouse_FirstMax(scent_matrix, g) ==
  IF ~AnyScent(scent_matrix) THEN simple_mouse
  ELSE IF isPlayerNext2Food(g) # {} THEN isPlayerNext2Food(g)
  ELSE LET m == movement_array(scent_matrix)
           best == { d \in Directions : \A e \in Directions : m[e] <= m[d] }
       IN { d \in best : \A e \in best : d <= e }

\* smart_mouse: the directions it can return, gm.game_grid being g
smart_mouse(scent_matrix, g) ==
  IF ~AnyScent(scent_matrix) THEN simple_mouse
  ELSE IF isPlayerNext2Food(g) # {} THEN isPlayerNext2Food(g)
  ELSE LET m == movement_array(scent_matrix)
       IN { d \in Directions : \A e \in Directions : m[e] <= m[d] }

\* --------------------------------------------------------------- GameState
RECURSIVE FoodsLoc(_, _)
FoodsLoc(spaces, k) ==
  IF k > Len(spaces) THEN <<>>
  ELSE IF spaces[k].type = "Food"
    THEN <<<<spaces[k].x, spaces[k].y>>>> \o FoodsLoc(spaces, k + 1)
    ELSE FoodsLoc(spaces, k + 1)

\* GameState.__init__
GameState(g) ==
  [player_loc_x |-> g.player.x, player_loc_y |-> g.player.y,
   player_energy |-> g.player.energy,
   player_food_eaten |-> g.player.food_eaten,
   player_score |-> g.player.score,
   foods_loc |-> FoodsLoc(g.occupied_spaces, 1)]

\* restorePlayer that forgets the energy of the snapshot
restorePlayer_NoEnergy(gs) ==
  [Player(gs.player_loc_x, gs.player_loc_y) EXCEPT
     !.food_eaten = gs.player_food_eaten,
     !.score = gs.player_score]

\* GameState.restorePlayer
restorePlayer(gs) ==
  [Player(gs.player_loc_x, gs.player_loc_y) EXCEPT
     !.energy = gs.player_energy,
     !.food_eaten = gs.player_food_eaten,
     !.score = gs.player_score]

\* ------------------------------------------------------------- GameManager
VARIABLES
  game_grid,        \* gm.game_grid: smell_grid, occupied_grid, occupied_spaces, player
  round,            \* gm.round
  paused,           \* gm.paused
  game_states,      \* gm.game_states
  round_scores,     \* gm.round_scores
  SCENT_STACKING,   \* the global the key 0 toggles
  fault,            \* an exception has left the main loop
  ticks,            \* ticks and key presses K_p, K_0 so far
  op                \* the last call: its name, arguments and intermediate values

vars == <<game_grid, round, paused, game_states, round_scores, SCENT_STACKING,
          fault, ticks, op>>

\* the fields of the GameManager the round logic works on
GM == [game_grid |-> game_grid, round |-> round, game_states |-> game_states,
       round_scores |-> round_scores]

\* reset that keeps the saved game states
reset_Keep(m) == m

\* GameManager.reset
reset(m) == [m EXCEPT !.game_states = <<>>]

\* endRound that starts the ledger anew instead of appending to it
endRound_Overwrite(m) ==
  reset([m EXCEPT !.round_scores = <<m.game_grid.player.score>>,
                  !.game_grid = ResetGrid,
                  !.round = m.round + 1])

\* GameManager.endRound
endRound(m) ==
  reset([m EXCEPT !.round_scores = Append(m.round_scores, m.game_grid.player.score),
                  !.game_grid = ResetGrid,
                  !.round = m.round + 1])

\* checkEndStates that looks at the death of the player first
checkEndStates_DeathFirst(m) ==
  IF ~m.game_grid.player.alive
    THEN IF DEATH_PENALTY
           THEN endRound([m EXCEPT !.game_grid.player.score = 0])
           ELSE endRound(m)
  ELSE IF m.game_grid.player.food_eaten >= FOOD_PER_ROUND THEN endRound(m)
    ELSE m

\* GameManager.checkEndStates
checkEndStates(m) ==
  IF m.game_grid.player.food_eaten >= FOOD_PER_ROUND THEN endRound(m)
  ELSE IF ~m.game_grid.player.alive
    THEN IF DEATH_PENALTY
           THEN endRound([m EXCEPT !.game_grid.player.score = 0])
           ELSE endRound(m)
    ELSE m

\* saveGameState that evicts one push too late
saveGameState_Late(m) ==
  LET kept == IF Len(m.game_states) > MAX_SAVED_GAME_STATES
                THEN Tail(m.game_states) ELSE m.game_states
  IN [m EXCEPT !.game_states = Append(kept, GameState(m.game_grid))]

\* GameManager.saveGameState
saveGameState(m) ==
  LET kept == IF Len(m.game_states) >= MAX_SAVED_GAME_STATES
                THEN Tail(m.game_states) ELSE m.game_states
  IN [m EXCEPT !.game_states = Append(kept, GameState(m.game_grid))]

\* the loop over foods_loc in restoreGameState: the grids it can leave
RECURSIVE RestoreFoods(_, _, _, _)
RestoreFoods(grids, foods_loc, k, stacking) ==
  IF k > Len(foods_loc) THEN grids
  ELSE RestoreFoods(
         UNION { IF Raised(g) THEN {g}
                 ELSE addFood(g, foods_loc[k][1], foods_loc[k][2], stacking)
                 : g \in grids },
         foods_loc, k + 1, stacking)

\* GameManager.restoreGameState: the grids it can leave
restoreGameState(game_state, stacking) ==
  RestoreFoods({ [ResetGrid EXCEPT !.player = restorePlayer(game_state)] },
               game_state.foods_loc, 1, stacking)

\* a slice that keeps one snapshot too many
DropLast_OffByOne(states, n) ==
  IF n = 0 THEN <<>>
  ELSE SubSeq(states, 1, Max(0, Len(states) - n + 1))

\* game_states[:-num_to_rewind]
DropLast(states, n) ==
  IF n = 0 THEN <<>>
  ELSE SubSeq(states, 1, Max(0, Len(states) - n))

\* GameManager.rewindGameState: the managers it can leave, and whether
\* game_states[-1] raised IndexError
rewindGameState(m, num_to_rewind, stacking) ==
  IF Len(m.game_states) <= 1 THEN { [gm |-> m, raised |-> FALSE] }
  ELSE LET n == IF num_to_rewind >= Len(m.game_states)
                  THEN Len(m.game_states) - 1 ELSE num_to_rewind
           kept == DropLast(m.game_states, n)
       IN IF kept = <<>>
            THEN { [gm |-> [m EXCEPT !.game_states = kept], raised |-> TRUE] }
            ELSE { [gm |-> [m EXCEPT !.game_states = kept, !.game_grid = g],
                    raised |-> Raised(g)]
                   : g \in restoreGameState(kept[Len(kept)], stacking) }

\* the food logicTick adds when occupied_spaces == []: the grids it can leave
RECURSIVE AddFoods(_, _, _)
AddFoods(grids, count, stacking) ==
  IF count = 0 THEN grids
  ELSE AddFoods(UNION { addFood(g, -1, -1, stacking) : g \in grids },
                count - 1, stacking)

\* a replenishment that tops the grid up whenever it holds fewer tiles than
\* MAX_NUM_FOOD_ON_GRID
Replenish_TopUp(g, stacking) ==
  IF Len(g.occupied_spaces) < MAX_NUM_FOOD_ON_GRID
    THEN AddFoods({g}, MAX_NUM_FOOD_ON_GRID - Len(g.occupied_spaces), stacking)
    ELSE {g}

\* logicTick: if occupied_spaces == [], MAX_NUM_FOOD_ON_GRID calls of addFood
Replenish(g, stacking) ==
  IF g.occupied_spaces = <<>>
    THEN AddFoods({g}, MAX_NUM_FOOD_ON_GRID, stacking)
    ELSE {g}

\* the grid the decision is taken on: calcSmellMatrix, then calcPlayerSense
Sensed(g, stacking) ==
  calcPlayerSense([g EXCEPT !.smell_grid =
                              SmellCall(g.occupied_spaces, stacking)])

\* GameManager.__init__: the grid after game_grid.addFood()
Init ==
  /\ game_grid \in addFood(ResetGrid, -1, -1, TRUE)
  /\ round = 0
  /\ paused = FALSE
  /\ game_states = <<>>
  /\ round_scores = <<>>
  /\ SCENT_STACKING = TRUE
  /\ fault = FALSE
  /\ ticks = 0
  /\ op = [name |-> "init", arg |-> <<>>, mid |-> <<>>]

\* GameManager.logicTick: g1 after the food is added, g2 after calcSmellMatrix
\* and calcPlayerSense, g3 after movePlayer, m4 after checkEndStates, m5 after
\* saveGameState. mid: the movement chosen, the player after movePlayer
\* (food_eaten, alive, score, energy), len(game_states) before
\* saveGameState, and the tiles of g1
LogicTick ==
  /\ ~fault
  /\ ticks < MaxTicks
  /\ \E g1 \in Replenish(game_grid, SCENT_STACKING) :
     \E g2 \in {Sensed(g1, SCENT_STACKING)} :
     \E movement \in smart_mouse(g2.player.smell_matrix, g2) :
     \E g3 \in {movePlayer(g2, movement, SCENT_STACKING)} :
     \E m4 \in {checkEndStates([GM EXCEPT !.game_grid = g3])} :
     \E m5 \in {saveGameState(m4)} :
       /\ game_grid' = m5.game_grid
       /\ round' = m5.round
       /\ game_states' = m5.game_states
       /\ round_scores' = m5.round_scores
       /\ op' = [name |-> "logicTick", arg |-> <<>>,
                 mid |-> <<movement, g3.player.food_eaten, g3.player.alive,
                           g3.player.score, g3.player.energy,
                           Len(m4.game_states), g1.occupied_spaces>>]
  /\ ticks' = ticks + 1
  /\ UNCHANGED <<paused, SCENT_STACKING, fault>>

\* a call of gm.rewindGameState(n). mid: len(game_states) before the call
RewindGameState(n) ==
  /\ ~fault
  /\ \E r \in rewindGameState(GM, n, SCENT_STACKING) :
       /\ game_grid' = r.gm.game_grid
       /\ round' = r.gm.round
       /\ game_states' = r.gm.game_states
       /\ round_scores' = r.gm.round_scores
       /\ fault' = r.raised
  /\ op' = [name |-> "rewindGameState", arg |-> <<n>>,
            mid |-> <<Len(game_states)>>]
  /\ UNCHANGED <<paused, SCENT_STACKING, ticks>>

\* the key K_LEFT: if gm.paused: gm.rewindGameState(1)
KeyLeft == paused /\ RewindGameState(1)

\* the key K_p: gm.paused = not gm.paused
KeyP ==
  /\ ~fault
  /\ ticks < MaxTicks
  /\ paused' = ~paused
  /\ op' = [name |-> "pause", arg |-> <<>>, mid |-> <<>>]
  /\ ticks' = ticks + 1
  /\ UNCHANGED <<game_grid, round, game_states, round_scores, SCENT_STACKING,
                 fault>>

\* the key K_0: SCENT_STACKING = not SCENT_STACKING; calcSmellMatrix()
Key0 ==
  /\ ~fault
  /\ ticks < MaxTicks
  /\ SCENT_STACKING' = ~SCENT_STACKING
  /\ game_grid' = [game_grid EXCEPT !.smell_grid =
                     SmellCall(game_grid.occupied_spaces, ~SCENT_STACKING)]
  /\ op' = [name |-> "toggle", arg |-> <<>>, mid |-> <<>>]
  /\ ticks' = ticks + 1
  /\ UNCHANGED <<round, paused, game_states, round_scores, fault>>

\* the main loop: a tick (when not paused, or on K_RIGHT when paused) and
\* the keys
Next == LogicTick \/ KeyLeft \/ KeyP \/ Key0

Spec == Init /\ [][Next]_vars

\* ------------------------------------------ calls of single operations
\* coordinates a client places the player at: the edges and their neighbours
EdgeCoords == {0, 1, GAME_GRID_WIDTH - 1}

\* Player.teleport(x, y)
Teleport(x, y) ==
  /\ ~fault
  /\ game_grid' = [game_grid EXCEPT !.player.x = x, !.player.y = y]
  /\ op' = [name |-> "teleport", arg |-> <<x, y>>, mid |-> <<>>]
  /\ UNCHANGED <<round, paused, game_states, round_scores, SCENT_STACKING, fault,
                 ticks>>

\* Player.move(direction, DEFAULT_TERRAIN_DIFFICULTY). mid: the player before
MovePlayerTile(direction) ==
  /\ ~fault
  /\ game_grid' = [game_grid EXCEPT
                     !.player = move(@, direction, DEFAULT_TERRAIN_DIFFICULTY)]
  /\ op' = [name |-> "move", arg |-> <<direction>>,
            mid |-> <<game_grid.player.x, game_grid.player.y,
                      game_grid.player.energy, game_grid.player.alive>>]
  /\ UNCHANGED <<round, paused, game_states, round_scores, SCENT_STACKING, fault,
                 ticks>>

NextMove ==
  \/ \E x \in EdgeCoords : \E y \in EdgeCoords : Teleport(x, y)
  \/ \E direction \in Directions : MovePlayerTile(direction)

SpecMove == Init /\ [][NextMove]_vars

\* the windows a client hands to smart_mouse: n, s, w, e at the top centre,
\* bottom centre, left centre and right centre, k in a corner
Window(n, s, w, e, k) == << <<0, n, k>>, <<w, 0, e>>, <<0, s, 0>> >>

Windows ==
  { Window(n, s, w, e, k) :
      n \in {0, 33333, 50000}, s \in {0, 33333, 50000},
      w \in {0, 50000}, e \in {0, 50000},
      k \in {0, 25000} }

\* smart_mouse(scent_matrix). mid: the direction returned
SmartMouse(scent_matrix) ==
  /\ ~fault
  /\ \E movement \in smart_mouse(scent_matrix, game_grid) :
       op' = [name |-> "smart_mouse", arg |-> <<scent_matrix>>,
              mid |-> <<movement>>]
  /\ UNCHANGED <<game_grid, round, paused, game_states, round_scores,
                 SCENT_STACKING, fault, ticks>>

NextDecide ==
  \/ \E x \in EdgeCoords : \E y \in EdgeCoords : Teleport(x, y)
  \/ \E scent_matrix \in Windows : SmartMouse(scent_matrix)

SpecDecide == Init /\ [][NextDecide]_vars

\* the coordinates a client hands to addFood: -1 is the default
ArgCoords == {-1, 0, 1, GAME_GRID_WIDTH - 1, GAME_GRID_WIDTH, GAME_GRID_WIDTH + 1}

\* game_grid.addFood(x, y). mid: the number of tiles before
AddFood(x, y) ==
  /\ ~fault
  /\ Len(game_grid.occupied_spaces) < MaxTiles
  /\ \E g \in addFood(game_grid, x, y, SCENT_STACKING) :
       /\ game_grid' = g
       /\ fault' = Raised(g)
  /\ op' = [name |-> "addFood", arg |-> <<x, y>>,
            mid |-> <<Len(game_grid.occupied_spaces)>>]
  /\ UNCHANGED <<round, paused, game_states, round_scores, SCENT_STACKING, ticks>>

NextPlace == \E x \in ArgCoords : \E y \in ArgCoords : AddFood(x, y)

SpecPlace == Init /\ [][NextPlace]_vars

\* the scenario of one food at (5,5) and the player at (5,7), full of energy
InitScenario ==
  /\ game_grid \in { [g EXCEPT !.player.x = 5, !.player.y = 7] :
                       g \in addFood(ResetGrid, 5, 5, TRUE) }
  /\ round = 0
  /\ paused = FALSE
  /\ game_states = <<>>
  /\ round_scores = <<>>
  /\ SCENT_STACKING = TRUE
  /\ fault = FALSE
  /\ ticks = 0
  /\ op = [name |-> "init", arg |-> <<>>, mid |-> <<>>]

NextTicks == LogicTick

SpecScenario == InitScenario /\ [][NextTicks]_vars

\* the main loop left alone: a tick per frame, no key pressed
SpecTicks == Init /\ [][NextTicks]_vars

\* a client of the GameManager: ticks, and rewindGameState with any argument
NextApi == LogicTick \/ \E n \in 0 .. MaxRewind : RewindGameState(n)

SpecApi == Init /\ [][NextApi]_vars

\* ------------------------------------------------------------------ claims
\* the live state has the values of the snapshot: agent x/y, energy,
\* food_eaten, score and the list of the food positions
LiveEquals(g, snapshot) == GameState(g) = snapshot

\* C1: a rewindGameState(N-1) on a history of N snapshots (2 <= N <=
\* MAX_SAVED_GAME_STATES) leaves exactly the first snapshot of the history,
\* and the live state (agent x/y, energy, food_eaten, score, food positions)
\* equals that snapshot.
C1_RewindRoundTrip ==
  [][(/\ op'.name = "rewindGameState"
      /\ Len(game_states) >= 2
      /\ Len(game_states) <= MAX_SAVED_GAME_STATES
      /\ op'.arg = <<Len(game_states) - 1>>)
     => (/\ game_states' = <<game_states[1]>>
         /\ LiveEquals(game_grid', game_states[1])
         /\ ~fault')]_vars

\* a rewind by N-1 >= 2 has left the first of N snapshots, whose energy is no
\* longer the full energy, and the live state equals it
C1_Witness ==
  /\ op.name = "rewindGameState"
  /\ op.mid[1] >= 3
  /\ op.arg = <<op.mid[1] - 1>>
  /\ Len(game_states) = 1
  /\ game_states[1].player_energy < MAX_ENERGY
  /\ LiveEquals(game_grid, game_states[1])

\* C2 (as claimed): rewindGameState(0) on any history, and rewindGameState(n)
\* on a history of at most one snapshot, leave the history and the live state
\* unchanged and raise nothing.
C2_RewindIdempotent ==
  [][(/\ op'.name = "rewindGameState"
      /\ (op'.arg = <<0>> \/ Len(game_states) <= 1))
     => (/\ game_states' = game_states
         /\ game_grid' = game_grid
         /\ ~fault')]_vars

\* C3: the history never holds more than MAX_SAVED_GAME_STATES snapshots, and
\* a tick that pushes onto a full history (the round going on) drops exactly
\* the oldest snapshot, keeps the others in order and appends the new one.
C3_BoundedFifo ==
  /\ [](Len(game_states) <= MAX_SAVED_GAME_STATES)
  /\ [][(op'.name = "logicTick" /\ round' = round)
        => game_states' =
             Append(IF Len(game_states) >= MAX_SAVED_GAME_STATES
                      THEN Tail(game_states) ELSE game_states,
                    GameState(game_grid'))]_vars

\* a tick has pushed onto a full history
C3_Witness ==
  /\ op.name = "logicTick"
  /\ op.mid[6] = MAX_SAVED_GAME_STATES
  /\ Len(game_states) = MAX_SAVED_GAME_STATES

\* C4: for n >= 1 and a history of L >= 2 snapshots, rewindGameState(n) raises
\* nothing, leaves the oldest max(1, L - n) snapshots in order, and the live
\* state equals the new last snapshot (so n >= L acts as n = L - 1).
C4_RewindClamping ==
  [][(/\ op'.name = "rewindGameState"
      /\ op'.arg[1] >= 1
      /\ Len(game_states) >= 2)
     => (/\ ~fault'
         /\ game_states' =
              SubSeq(game_states, 1, Max(1, Len(game_states) - op'.arg[1]))
         /\ LiveEquals(game_grid', game_states'[Len(game_states')]))]_vars

\* a rewind by more than the history holds has left one snapshot of three
C4_Witness ==
  /\ op.name = "rewindGameState"
  /\ op.mid[1] >= 3
  /\ op.arg[1] > op.mid[1]
  /\ Len(game_states) = 1
  /\ ~fault

\* direction leaves the grid from the position of p
LeavesGrid(p, direction) ==
  \/ direction = WEST /\ p.x = 0
  \/ direction = EAST /\ p.x = GAME_GRID_WIDTH - 1
  \/ direction = NORTH /\ p.y = 0
  \/ direction = SOUTH /\ p.y = GAME_GRID_HEIGHT - 1

\* C5: a move of an alive player off the edge of the grid leaves the position
\* unchanged and takes exactly the move cost; the player is dead afterwards
\* exactly if the energy is below 0; the position is always inside the grid.
C5_BoundaryMove ==
  /\ [](checkValidTile(game_grid.player.x, game_grid.player.y))
  /\ [][(/\ op'.name = "move"
         /\ game_grid.player.alive
         /\ LeavesGrid(game_grid.player, op'.arg[1]))
        => (/\ game_grid'.player.x = game_grid.player.x
            /\ game_grid'.player.y = game_grid.player.y
            /\ game_grid'.player.energy =
                 game_grid.player.energy - DEFAULT_TERRAIN_DIFFICULTY
            /\ (~game_grid'.player.alive <=> game_grid'.player.energy < 0))]_vars

\* an alive player on the east edge has moved east, stayed and died of it
C5_Witness ==
  /\ op.name = "move"
  /\ op.arg = <<EAST>>
  /\ op.mid[1] = GAME_GRID_WIDTH - 1
  /\ op.mid[3] = 0
  /\ op.mid[4]
  /\ game_grid.player.x = GAME_GRID_WIDTH - 1
  /\ game_grid.player.energy = 0 - DEFAULT_TERRAIN_DIFFICULTY
  /\ ~game_grid.player.alive

\* C6 (as claimed): given an all-zero window while the only food next to the
\* player is directly north, smart_mouse returns North.
C6_ZeroWindowNorth ==
  (/\ op.name = "smart_mouse"
   /\ ~AnyScent(op.arg[1])
   /\ isPlayerNext2Food(game_grid) = {NORTH})
  => op.mid[1] = NORTH

\* C6 (amended): with the only food next to the player directly north,
\* smart_mouse returns North for every window that is not all zero, and any
\* of the four directions for the all-zero window.
C6_NearbyFoodNorth ==
  isPlayerNext2Food(game_grid) = {NORTH}
  => /\ smart_mouse(ZeroMatrix, game_grid) = Directions
     /\ (op.name = "smart_mouse" /\ AnyScent(op.arg[1])) => op.mid[1] = NORTH

\* food is directly north only, the window smells strongest to the south,
\* and smart_mouse has returned North
C6_Witness ==
  /\ op.name = "smart_mouse"
  /\ isPlayerNext2Food(game_grid) = {NORTH}
  /\ op.arg[1] = Window(0, 50000, 0, 0, 0)
  /\ op.mid[1] = NORTH

\* C7: from one food at (5,5) and the player at (5,7) with full energy, in
\* stacking mode, the first tick moves North, and after the second tick the
\* player is at (5,5) with food_eaten = 1, score = the energy at the moment
\* of feeding (full energy less two moves), and energy = min(MAX_ENERGY,
\* full energy - 2 moves + ENERGY_PER_FOOD).
C7_TwoTicks ==
  /\ ticks = 1 => /\ op.mid[1] = NORTH
                  /\ game_grid.player.x = 5 /\ game_grid.player.y = 6
  /\ ticks = 2 => /\ game_grid.player.x = 5 /\ game_grid.player.y = 5
                  /\ game_grid.player.food_eaten = 1
                  /\ game_grid.player.score =
                       MAX_ENERGY - 2 * DEFAULT_TERRAIN_DIFFICULTY
                  /\ game_grid.player.energy =
                       Min(MAX_ENERGY, MAX_ENERGY - 2 * DEFAULT_TERRAIN_DIFFICULTY
                                         + ENERGY_PER_FOOD)

\* two ticks have run and the food is eaten
C7_Witness ==
  /\ ticks = 2
  /\ round = 0
  /\ game_grid.player.food_eaten = 1
  /\ game_grid.occupied_spaces = <<>>

\* C8 (as claimed): in stacking mode the field is >= 0 everywhere and its
\* value at the cell of every food is round(1/(0+1), 5) = 1.
C8_ScentAtFood ==
  game_grid.smell_grid.stacking
  => /\ \A c \in Cells : SmellGrid(game_grid)[c] >= 0
     /\ \A k \in 1 .. Len(game_grid.smell_grid.tiles) :
          SmellGrid(game_grid)[<<game_grid.smell_grid.tiles[k].x,
                                 game_grid.smell_grid.tiles[k].y>>] = Contribution[0]

\* C9 (as claimed): addFood with a position outside the grid, the grid not
\* being full, raises nothing and places one tile on a cell inside the grid
\* that was empty before.
C9_OutOfBoundsPlacement ==
  [][(/\ op'.name = "addFood"
      /\ Len(game_grid.occupied_spaces) < NUM_SPACES
      /\ ~checkValidTile(op'.arg[1], op'.arg[2]))
     => (/\ ~fault'
         /\ Len(game_grid'.occupied_spaces) = Len(game_grid.occupied_spaces) + 1
         /\ LET tile == game_grid'.occupied_spaces[Len(game_grid'.occupied_spaces)]
            IN /\ checkValidTile(tile.x, tile.y)
               /\ <<tile.x, tile.y>> \notin game_grid.occupied_grid)]_vars

\* C10: a tick ends the round with the score of the player appended unchanged
\* if food_eaten >= FOOD_PER_ROUND after the move (dead or not); otherwise,
\* if the player is dead after the move, it ends the round with 0 appended;
\* otherwise the round goes on and nothing is appended.
C10_EndConditions ==
  [][op'.name = "logicTick"
     => IF op'.mid[2] >= FOOD_PER_ROUND
          THEN /\ round' = round + 1
               /\ round_scores' = Append(round_scores, op'.mid[4])
          ELSE IF ~op'.mid[3]
            THEN /\ round' = round + 1
                 /\ round_scores' = Append(round_scores, 0)
            ELSE /\ round' = round
                 /\ round_scores' = round_scores]_vars

\* the player has died on the tick that reached the food target, and its
\* score, which is not 0, is in the ledger
C10_Witness ==
  /\ op.name = "logicTick"
  /\ op.mid[2] >= FOOD_PER_ROUND
  /\ ~op.mid[3]
  /\ op.mid[4] # 0
  /\ round_scores # <<>>
  /\ round_scores[Len(round_scores)] = op.mid[4]

\* C11: an alive player has 0 <= energy <= MAX_ENERGY and a player with
\* energy below 0 is dead, both in every state between operations and in the
\* player as movePlayer leaves it inside a tick; after movePlayer (and so
\* after a feed) energy is never above MAX_ENERGY.
C11_EnergyBound ==
  /\ game_grid.player.alive =>
       (0 <= game_grid.player.energy /\ game_grid.player.energy <= MAX_ENERGY)
  /\ game_grid.player.energy < 0 => ~game_grid.player.alive
  /\ op.name = "logicTick" =>
       /\ op.mid[3] => (0 <= op.mid[5] /\ op.mid[5] <= MAX_ENERGY)
       /\ op.mid[5] < 0 => ~op.mid[3]
       /\ op.mid[5] <= MAX_ENERGY

\* the first food of a round is eaten with so much energy left that the
\* bonus would pass MAX_ENERGY, and the energy after the feed is MAX_ENERGY
C11_Witness ==
  /\ op.name = "logicTick"
  /\ op.mid[2] = 1
  /\ op.mid[3]
  /\ op.mid[4] + ENERGY_PER_FOOD > MAX_ENERGY
  /\ op.mid[5] = MAX_ENERGY

\* C12 (as claimed): the score of the player is never negative and every
\* entry of round_scores lies in 0 .. MAX_ENERGY * FOOD_PER_ROUND.
C12_ScoreRange ==
  /\ game_grid.player.score >= 0
  /\ \A i \in 1 .. Len(round_scores) :
       /\ 0 <= round_scores[i]
       /\ round_scores[i] <= MAX_ENERGY * FOOD_PER_ROUND

\* C13: len(round_scores) = round in every state; a tick in which
\* checkEndStates finds the target reached or the player dead appends exactly
\* one entry to round_scores and adds one to round; any other tick and every
\* rewindGameState call leave round and round_scores as they are; no step
\* changes or removes an entry already in round_scores.
C13_Ledger ==
  /\ [](Len(round_scores) = round)
  /\ [][ /\ Len(round_scores') >= Len(round_scores)
         /\ SubSeq(round_scores', 1, Len(round_scores)) = round_scores
         /\ op'.name = "logicTick" =>
              IF op'.mid[2] >= FOOD_PER_ROUND \/ ~op'.mid[3]
                THEN /\ Len(round_scores') = Len(round_scores) + 1
                     /\ round' = round + 1
                ELSE /\ round_scores' = round_scores
                     /\ round' = round
         /\ op'.name = "rewindGameState" =>
              /\ round_scores' = round_scores
              /\ round' = round ]_vars

\* two rounds have ended and a rewind has just run on a history of more
\* than one snapshot
C13_Witness ==
  /\ round = 2
  /\ Len(round_scores) = 2
  /\ op.name = "rewindGameState"
  /\ op.mid[1] > 1

\* C14 (as claimed): when the move of a tick leaves the player dead, the
\* food on the destination cell is not eaten: after movePlayer food_eaten
\* and score are what they were before the tick and energy is the energy
\* before the tick less the cost of the move.
C14_DeadDoNotFeed ==
  [][ (op'.name = "logicTick" /\ ~op'.mid[3]) =>
        /\ op'.mid[2] = game_grid.player.food_eaten
        /\ op'.mid[4] = game_grid.player.score
        /\ op'.mid[5] = game_grid.player.energy - DEFAULT_TERRAIN_DIFFICULTY ]_vars

\* C15 (as claimed): addFood with a position inside the grid that holds a
\* tile, the grid not being full, places the new tile on another cell, one
\* that was empty before the call; and then no two tiles of occupied_spaces
\* share a position and occupied_grid marks exactly the cells of the tiles.
C15_OccupiedPlacement ==
  [][(/\ op'.name = "addFood"
      /\ Len(game_grid.occupied_spaces) < NUM_SPACES
      /\ checkOccupied(game_grid, op'.arg[1], op'.arg[2]))
     => (/\ Len(game_grid'.occupied_spaces) = Len(game_grid.occupied_spaces) + 1
         /\ LET tile == game_grid'.occupied_spaces[Len(game_grid'.occupied_spaces)]
            IN /\ <<tile.x, tile.y>> # <<op'.arg[1], op'.arg[2]>>
               /\ <<tile.x, tile.y>> \notin game_grid.occupied_grid
         /\ \A i, j \in 1 .. Len(game_grid'.occupied_spaces) :
              i # j => <<game_grid'.occupied_spaces[i].x,
                         game_grid'.occupied_spaces[i].y>>
                       # <<game_grid'.occupied_spaces[j].x,
                           game_grid'.occupied_spaces[j].y>>
         /\ game_grid'.occupied_grid =
              { <<game_grid'.occupied_spaces[i].x, game_grid'.occupied_spaces[i].y>>
                : i \in 1 .. Len(game_grid'.occupied_spaces) })]_vars

\* C16: after construction and after every tick, rewind and toggle of the
\* scent mode, the stored smell_grid equals, cell by cell, the array
\* calcSmellMatrix computes from the tiles now in occupied_spaces under the
\* current SCENT_STACKING, and it is zero everywhere when occupied_spaces is
\* empty. (The arrays of two equal calls are equal, so they are computed
\* only when the stored call differs from the call on the current tiles.)
C16_ScentFresh ==
  ~fault =>
    /\ \/ game_grid.smell_grid =
            SmellCall(game_grid.occupied_spaces, SCENT_STACKING)
       \/ SmellGrid(game_grid) =
            calcSmellMatrix(game_grid.occupied_spaces, SCENT_STACKING)
    /\ game_grid.occupied_spaces = <<>> =>
         \A c \in Cells : SmellGrid(game_grid)[c] = 0

\* a tick has eaten one of two foods (the snapshot before it has
\* food_eaten = 0), the other one is still on the grid
C16_Witness ==
  /\ op.name = "logicTick"
  /\ Len(game_states) >= 2
  /\ game_states[Len(game_states) - 1].player_food_eaten = 0
  /\ game_grid.player.food_eaten = 1
  /\ Len(game_grid.occupied_spaces) = 1

\* C17: a tick in which checkEndStates ends the round leaves game_states
\* with exactly one snapshot, the one of the reset grid (player at (0,0),
\* energy MAX_ENERGY, food_eaten 0, score 0, no foods). A tick that does not
\* end the round keeps game_states or its tail and appends one snapshot; a
\* rewind leaves the round as it is and keeps a prefix of game_states, and
\* when it restores, the player it restores is the one of the last snapshot
\* kept. So every snapshot in game_states was taken after the last round end.
C17_HistoryPerRound ==
  [][ /\ op'.name = "logicTick" =>
           IF op'.mid[2] >= FOOD_PER_ROUND \/ ~op'.mid[3]
             THEN game_states' =
                    << [player_loc_x |-> 0, player_loc_y |-> 0,
                        player_energy |-> MAX_ENERGY, player_food_eaten |-> 0,
                        player_score |-> 0, foods_loc |-> <<>>] >>
             ELSE /\ Len(game_states') >= 1
                  /\ LET kept == SubSeq(game_states', 1, Len(game_states') - 1)
                     IN \/ kept = game_states
                        \/ game_states # <<>> /\ kept = Tail(game_states)
      /\ op'.name = "rewindGameState" =>
           /\ round' = round
           /\ Len(game_states') <= Len(game_states)
           /\ game_states' = SubSeq(game_states, 1, Len(game_states'))
           /\ (game_states' # game_states /\ ~fault') =>
                LET s == game_states'[Len(game_states')]
                IN /\ game_grid'.player.x = s.player_loc_x
                   /\ game_grid'.player.y = s.player_loc_y
                   /\ game_grid'.player.energy = s.player_energy
                   /\ game_grid'.player.food_eaten = s.player_food_eaten
                   /\ game_grid'.player.score = s.player_score ]_vars

\* a round of at least three ticks has just ended: the history of that
\* round is gone
C17_Witness ==
  /\ op.name = "logicTick"
  /\ round = 1
  /\ ticks >= 3
  /\ Len(game_states) = 1
  /\ op.mid[6] = 0

\* C18: a tick that starts on a grid without tiles adds exactly
\* MAX_NUM_FOOD_ON_GRID food tiles, on pairwise distinct cells inside the
\* grid; a tick that starts on a grid with tiles adds none; so smart_mouse
\* always decides on a grid with at least one food; and in every state
\* reached by ticks and rewinds occupied_spaces holds at most
\* MAX_NUM_FOOD_ON_GRID tiles.
C18_Replenishment ==
  /\ [](Len(game_grid.occupied_spaces) <= MAX_NUM_FOOD_ON_GRID)
  /\ [][ op'.name = "logicTick" =>
           LET tiles == op'.mid[7]
           IN /\ Len(tiles) >= 1
              /\ IF game_grid.occupied_spaces = <<>>
                   THEN /\ Len(tiles) = MAX_NUM_FOOD_ON_GRID
                        /\ \A i \in 1 .. Len(tiles) :
                             /\ tiles[i].type = "Food"
                             /\ checkValidTile(tiles[i].x, tiles[i].y)
                        /\ \A i, j \in 1 .. Len(tiles) :
                             i # j => <<tiles[i].x, tiles[i].y>>
                                      # <<tiles[j].x, tiles[j].y>>
                   ELSE tiles = game_grid.occupied_spaces ]_vars

\* a tick has started on an empty grid in the middle of a round (the
\* snapshot before it holds no food) and two foods were added
C18_Witness ==
  /\ op.name = "logicTick"
  /\ Len(game_states) >= 2
  /\ game_states[Len(game_states) - 1].foods_loc = <<>>
  /\ game_states[Len(game_states) - 1].player_food_eaten = 1
  /\ Len(op.mid[7]) = MAX_NUM_FOOD_ON_GRID

\* C19: after a call of smart_mouse with a window that is not all zero: if
\* a cell next to the player (west, east, north or south of it) holds food,
\* the direction returned, and every direction the call can return, leads
\* to such a cell; otherwise the directions the call can return are exactly
\* those whose magnitude (top centre for North, bottom centre for South, left
\* centre for West, right centre for East) equals the largest of the four,
\* and the direction returned is one of them.
C19_DecisionSet ==
  LET x == game_grid.player.x
      y == game_grid.player.y
      Food(a, b) == \E k \in 1 .. Len(game_grid.occupied_spaces) :
                      /\ game_grid.occupied_spaces[k].x = a
                      /\ game_grid.occupied_spaces[k].y = b
                      /\ game_grid.occupied_spaces[k].type = "Food"
      adjacent == { d \in Directions :
                      \/ d = NORTH /\ Food(x, y - 1)
                      \/ d = SOUTH /\ Food(x, y + 1)
                      \/ d = WEST /\ Food(x - 1, y)
                      \/ d = EAST /\ Food(x + 1, y) }
      Magnitude(w, d) == CASE d = NORTH -> w[1][2]
                           [] d = SOUTH -> w[3][2]
                           [] d = WEST -> w[2][1]
                           [] d = EAST -> w[2][3]
      Allowed(w) == IF adjacent # {} THEN adjacent
                    ELSE { d \in Directions :
                             \A e \in Directions : Magnitude(w, e) <= Magnitude(w, d) }
  IN (op.name = "smart_mouse" /\ AnyScent(op.arg[1])) =>
       /\ op.mid[1] \in Allowed(op.arg[1])
       /\ smart_mouse(op.arg[1], game_grid) \subseteq Allowed(op.arg[1])
       /\ adjacent = {} => smart_mouse(op.arg[1], game_grid) = Allowed(op.arg[1])

\* no food next to the player; West and North tie for the largest magnitude,
\* South is smaller but not zero, and smart_mouse has returned West
C19_Witness ==
  /\ op.name = "smart_mouse"
  /\ isPlayerNext2Food(game_grid) = {}
  /\ op.arg[1] = Window(50000, 33333, 50000, 0, 0)
  /\ op.mid[1] = WEST

\* C20 (as claimed): with SCENT_STACKING off, every cell of smell_grid holds
\* the largest, over the foods, of round(1/(distance from the cell to the
\* food + 1), 5), and only the cells of the foods hold 1. The claim is read
\* with either order of the two indexes of smell_grid: [x][y] as in line 315
\* or [y][x] as in calcPlayerSense.
C20_MaxMode ==
  LET tiles == game_grid.smell_grid.tiles
      Expected(a, b) ==
        LET vals == { RoundedScent(a, b, tiles[k].x, tiles[k].y) :
                        k \in 1 .. Len(tiles) }
        IN CHOOSE v \in vals : \A u \in vals : u <= v
      FoodAt(a, b) == \E k \in 1 .. Len(tiles) : tiles[k].x = a /\ tiles[k].y = b
  IN (~game_grid.smell_grid.stacking /\ tiles # <<>>) =>
       \/ \A c \in Cells :
            /\ SmellGrid(game_grid)[c] = Expected(c[1], c[2])
            /\ SmellGrid(game_grid)[c] = Scale => FoodAt(c[1], c[2])
       \/ \A c \in Cells :
            /\ SmellGrid(game_grid)[c] = Expected(c[2], c[1])
            /\ SmellGrid(game_grid)[c] = Scale => FoodAt(c[2], c[1])

\* C21 (as claimed): once a tick has run, after every tick and after every
\* rewindGameState call the history is not empty and its last snapshot has
\* the values of the live state: agent x/y, energy, food_eaten, score and
\* the list of the food positions.
C21_LastSnapshotLive ==
  ticks >= 1 =>
    /\ game_states # <<>>
    /\ LiveEquals(game_grid, game_states[Len(game_states)])

\* C22: with a tick per step and no rewind, the first round has ended once
\* MAX_ENERGY + (FOOD_PER_ROUND - 1) * ENERGY_PER_FOOD + 1 ticks have run;
\* for, in every tick, the energy after movePlayer is at most the energy
\* before the tick less one, plus ENERGY_PER_FOOD if the tick has fed the
\* player, and a tick never ends with a player that is dead or has reached
\* FOOD_PER_ROUND.
C22_RoundEnds ==
  /\ [](ticks >= MAX_ENERGY + (FOOD_PER_ROUND - 1) * ENERGY_PER_FOOD + 1
          => round >= 1)
  /\ [](game_grid.player.alive /\ game_grid.player.food_eaten < FOOD_PER_ROUND)
  /\ [][ op'.name = "logicTick" =>
           op'.mid[5] <= game_grid.player.energy - 1
                           + (IF op'.mid[2] > game_grid.player.food_eaten
                                THEN ENERGY_PER_FOOD ELSE 0) ]_vars

\* the first round has lasted exactly as many ticks as the bound allows
C22_Witness ==
  /\ ticks = MAX_ENERGY + (FOOD_PER_ROUND - 1) * ENERGY_PER_FOOD + 1
  /\ round = 1
  /\ op.name = "logicTick"
  /\ ~op.mid[3]

\* C23 (as claimed): in the initial state, after every tick and after every
\* rewind, no food tile of occupied_spaces is on the cell of the player.
C23_NoFoodUnderPlayer ==
  \A k \in 1 .. Len(game_grid.occupied_spaces) :
    game_grid.occupied_spaces[k].type = "Food" =>
      <<game_grid.occupied_spaces[k].x, game_grid.occupied_spaces[k].y>>
        # <<game_grid.player.x, game_grid.player.y>>

====
